---- MODULE Spec2Model ----
(***************************************************************************)
(* A model of the fastText model engine (src/src/model.cc and the legacy   *)
(* engine kept in src/train_brain.sh): Model::State, computeHidden,        *)
(* predict, update, the binary-logistic / negative-sampling /              *)
(* hierarchical-softmax / softmax losses and WeightsModel::update.         *)
(*                                                                         *)
(* A `real` is a fixed-point number: the integer v stands for v / Scale,   *)
(* and every arithmetic operation rounds its exact result to that grid.    *)
(* One elementary step of a call is one access to a shared matrix element  *)
(* together with the local computation that follows it; Step is that step  *)
(* as a function of the worker's record and the two matrices, and Run      *)
(* iterates it to the end of the call.                                     *)
(***************************************************************************)
EXTENDS Integers, Sequences, FiniteSets, TLC

VARIABLES
  wi,                 \* wi_: the input matrix, shared by all workers
  wo,                 \* wo_: the output matrix, shared by all workers
  st,                 \* per worker: its Model::State, its call frame, its heap
  pre,                \* per worker: wi, wo and st[w] as the last call began
  last,               \* per worker: the arguments of the last call
  lossName,           \* the loss strategy chosen at construction
  normalizeGradient_, \* Model::normalizeGradient_
  codes,              \* hierarchical softmax: the code of each target
  paths               \* hierarchical softmax: the path of each target

vars == <<wi, wo, st, pre, last, lossName, normalizeGradient_, codes, paths>>

----------------------------------------------------------------------------
(* Bounds and fixtures *)

MaxCalls == 2              \* calls made on one State under Spec / SpecLegacy
NegSamples == 1            \* args->neg

Scale == 8                 \* resolution of `real`
Cols == 1..2               \* columns of both matrices (args->dim)
InIds == 0..2              \* rows of wi_
OutIds == 0..2             \* rows of wo_ (osz_)
WIds == 0..1               \* entries of WeightsModel::weights (wsz_ = 2 * ws)

Zero == [j \in Cols |-> 0]
ZeroOut == [i \in OutIds |-> 0]

Wi0 == [r \in InIds |-> CASE r = 0 -> <<8, 0>> [] r = 1 -> <<-4, 8>> [] OTHER -> <<4, 4>>]
Wo0 == [r \in OutIds |-> CASE r = 0 -> <<4, -8>> [] r = 1 -> <<8, 4>> [] OTHER -> <<0, 8>>]

\* the frequency-weighted table negatives are drawn from
negatives == <<0, 1, 0, 2, 1, 0>>

\* Huffman trees over three labels: label 0 is the most frequent
Paths0 == [t \in OutIds |-> CASE t = 0 -> <<1>> [] t = 1 -> <<0, 1>> [] OTHER -> <<0, 1>>]
Codes0 == [t \in OutIds |-> CASE t = 0 -> <<FALSE>> [] t = 1 -> <<TRUE, TRUE>> [] OTHER -> <<FALSE, TRUE>>]

LossNames == {"ns", "hs", "softmax"}
kUnlimitedPredictions == -1

----------------------------------------------------------------------------
(* Fixed-point arithmetic *)

\* a / b rounded to the nearest integer, b > 0
RoundDiv(a, b) == (2 * a + b) \div (2 * b)

FMul(a, b) == RoundDiv(a * b, Scale)
FDiv(a, b) == IF b > 0 THEN RoundDiv(a * Scale, b) ELSE 0 - RoundDiv(a * Scale, 0 - b)

MAX_SIGMOID == 2
SIGMOID_TABLE_SIZE == 4
\* t_sigmoid_[i] = 1 / (1 + exp(-(i * 2 * MAX_SIGMOID / SIGMOID_TABLE_SIZE - MAX_SIGMOID)))
t_sigmoid_ == <<1, 2, 4, 6, 7>>

sigmoid(x) ==
  IF x < 0 - MAX_SIGMOID * Scale THEN 0
  ELSE IF x > MAX_SIGMOID * Scale THEN Scale
  ELSE t_sigmoid_[((x + MAX_SIGMOID * Scale) * SIGMOID_TABLE_SIZE)
                    \div (MAX_SIGMOID * 2 * Scale) + 1]

\* t_log_[i] = log((i + 1e-5) / LOG_TABLE_SIZE), LOG_TABLE_SIZE = Scale
t_log_ == <<-109, -17, -11, -8, -6, -4, -2, -1, 0>>

log(x) == IF x > Scale THEN 0 ELSE IF x < 0 THEN t_log_[1] ELSE t_log_[x + 1]

\* std::exp on the grid
exp(x) ==
  CASE x >= 0 -> Scale
    [] x = -1 -> 7
    [] x = -2 -> 6
    [] x \in -4..-3 -> 5
    [] x \in -6..-5 -> 4
    [] x \in -9..-7 -> 3
    [] x \in -13..-10 -> 2
    [] x \in -22..-14 -> 1
    [] OTHER -> 0

RECURSIVE SumSeq(_)
SumSeq(q) == IF q = <<>> THEN 0 ELSE Head(q) + SumSeq(Tail(q))

MaxOf(S) == CHOOSE x \in S : \A y \in S : y <= x

----------------------------------------------------------------------------
(* Model::State *)

StateFields == {"lossValue_", "nexamples_", "hidden", "output", "grad", "rng"}

\* the fields of Model::State in a worker's record
StateOf(s) == [f \in StateFields |-> s[f]]

\* Model::State::State, with the frame and the caller's heap beside it
NewState(seed, nex) ==
  [lossValue_ |-> 0, nexamples_ |-> nex, hidden |-> Zero, output |-> ZeroOut,
   grad |-> Zero, rng |-> seed,
   heap |-> <<>>, thrown |-> FALSE, exited |-> FALSE,
   weights |-> [i \in WIds |-> Scale], weights_probs |-> [i \in WIds |-> 0],
   weights_grad_ |-> [i \in WIds |-> 0],
   pc |-> "idle", op |-> "none", input |-> <<>>, targets |-> <<>>,
   targetIndex |-> 0, lr |-> 0, k |-> 0, threshold |-> 0, offset |-> 0,
   it |-> 1, j |-> 1, n |-> 0, row |-> 0, label |-> FALSE, score |-> 0,
   alpha |-> 0, beta |-> 0, acc |-> 0, tmp |-> 0, loss |-> 0, ret |-> 0,
   strategy |-> "none", target |-> 0, heapCap |-> 0,
   nForward |-> 0, nPredict |-> 0,
   blTrace |-> <<>>, fwdLosses |-> <<>>, snapRow |-> Zero, snapGrad |-> Zero,
   fwdGrad |-> Zero,
   todo |-> <<>>]

getLoss(s) == RoundDiv(s.lossValue_, s.nexamples_)

\* a slip: the loss is assigned, not accumulated
incrementNExamples_assigns(s, loss) ==
  [s EXCEPT !.lossValue_ = loss, !.nexamples_ = @ + 1]

incrementNExamples(s, loss) ==
  [s EXCEPT !.lossValue_ = @ + loss, !.nexamples_ = @ + 1]

----------------------------------------------------------------------------
(* The loss strategies.  m is [s |-> a worker's record, wi |-> , wo |-> ]. *)

LastCol == MaxOf(Cols)
LastOut == MaxOf(OutIds)

\* Matrix::dotRow, all at once (used where no other worker can interleave)
dotRow(M, vec, i) == SumSeq([j \in Cols |-> FMul(M[i][j], vec[j])])

\* getNegative: the next entry of the table that is not the target
RECURSIVE getNegative(_, _)
getNegative(target, rng) ==
  LET negative == negatives[rng + 1]
      next == (rng + 1) % Len(negatives)
  IN IF target = negative THEN getNegative(target, next)
     ELSE [negative |-> negative, rng |-> next]

\* the entry of binaryLogistic(target, label, lr): the dot product starts
binaryLogistic(m, target, label) ==
  [m EXCEPT !.s = [@ EXCEPT !.pc = "dot", !.row = target, !.label = label,
                            !.j = 1, !.acc = 0,
                            !.snapRow = m.wo[target], !.snapGrad = m.s.grad]]

\* a slip: the output row is written first and the gradient is not taken
blScore_rowFirst(s, d) ==
  LET score == sigmoid(d)
      alpha == FMul(s.lr, (IF s.label THEN Scale ELSE 0) - score)
  IN [s EXCEPT !.score = score, !.alpha = alpha, !.beta = alpha,
               !.pc = "wo_load", !.j = 1]

\* binaryLogistic, once the dot product is complete: score and alpha
blScore(s, d) ==
  LET score == sigmoid(d)
      alpha == FMul(s.lr, (IF s.label THEN Scale ELSE 0) - score)
  IN [s EXCEPT !.score = score, !.alpha = alpha, !.beta = alpha,
               !.pc = "gradrow", !.j = 1]

\* binaryLogistic's return value
blLoss(s) == IF s.label THEN 0 - log(s.score) ELSE 0 - log(Scale - s.score)

\* the softmax normalisation of computeOutputSoftmax
softmaxOf(output) ==
  LET max == MaxOf({output[i] : i \in OutIds})
      e == [i \in OutIds |-> exp(output[i] - max)]
      z == SumSeq([i \in 1..Cardinality(OutIds) |-> e[i - 1]])
  IN [i \in OutIds |-> FDiv(e[i], z)]

\* one row of the softmax loop: alpha for row i, then grad_.addRow begins
softmaxRow(s, i) ==
  LET label == IF i = s.target THEN Scale ELSE 0
      alpha == FMul(s.lr, label - s.output[i])
  IN [s EXCEPT !.row = i, !.label = (i = s.target), !.alpha = alpha,
               !.beta = IF s.strategy = "wsoftmax"
                        THEN FMul(alpha, s.weights_probs[s.offset]) ELSE alpha,
               !.pc = "gradrow", !.j = 1]

\* the loop of negativeSampling, entered with n = 0
nsBegin(m) ==
  binaryLogistic([m EXCEPT !.s = [@ EXCEPT !.strategy = "ns", !.n = 0, !.loss = 0]],
                 m.s.target, TRUE)

\* the loop of hierarchicalSoftmax, entered with i = 0
hsBegin(m) ==
  LET pathToRoot == paths[m.s.target]
      binaryCode == codes[m.s.target]
      m1 == [m EXCEPT !.s = [@ EXCEPT !.strategy = "hs", !.n = 1, !.loss = 0]]
  IN IF Len(pathToRoot) = 0
     THEN [m1 EXCEPT !.s = [@ EXCEPT !.pc = "return"]]
     ELSE binaryLogistic(m1, pathToRoot[1], binaryCode[1])

\* the softmax loss: output = wo * hidden comes first
softmaxBegin(m, strategy) ==
  [m EXCEPT !.s = [@ EXCEPT !.strategy = strategy, !.loss = 0, !.output = ZeroOut,
                            !.pc = "mul", !.row = 0, !.j = 1]]

\* Loss::forward of the strategy chosen at construction
forward(m) ==
  LET m1 == [m EXCEPT !.s = [@ EXCEPT !.nForward = @ + 1,
                                      !.target = m.s.targets[m.s.targetIndex + 1]]]
  IN CASE lossName = "ns" -> nsBegin(m1)
       [] lossName = "hs" -> hsBegin(m1)
       [] OTHER -> softmaxBegin(m1, "softmax")

\* Model::negativeSampling(target, lr)
negativeSampling(m) == nsBegin([m EXCEPT !.s = [@ EXCEPT !.grad = Zero]])

\* Model::hierarchicalSoftmax(target, lr)
hierarchicalSoftmax(m) == hsBegin([m EXCEPT !.s = [@ EXCEPT !.grad = Zero]])

\* WeightsModel::softmax(target, lr, offset), up to computeOutputSoftmax
weightsSoftmax(m) ==
  LET s == m.s
      max == MaxOf({s.weights[i] : i \in WIds})
      e == [i \in WIds |-> exp(s.weights[i] - max)]
      z == SumSeq([i \in 1..Cardinality(WIds) |-> e[i - 1]])
      probs == [i \in WIds |-> FDiv(e[i], z)]
      wgrad == [i \in WIds |-> IF i = s.offset
                                THEN FDiv(Scale, z) - probs[s.offset]
                                ELSE probs[i]]
  IN softmaxBegin([m EXCEPT !.s = [@ EXCEPT !.weights_probs = probs,
                                            !.weights_grad_ = wgrad]],
                  "wsoftmax")

----------------------------------------------------------------------------
(* Loss::predict *)

std_log(x) == log(x)

\* the score of every output under the strategy chosen at construction
computeOutput(m) ==
  LET node == [i \in OutIds |-> sigmoid(dotRow(m.wo, m.s.hidden, i))]
      leaf(t, p) == IF codes[t][p] THEN node[paths[t][p]]
                    ELSE Scale - node[paths[t][p]]
      prob(t) == IF Len(paths[t]) = 1 THEN leaf(t, 1)
                 ELSE FMul(leaf(t, 1), leaf(t, 2))
  IN CASE lossName = "softmax" ->
            softmaxOf([i \in OutIds |-> dotRow(m.wo, m.s.hidden, i)])
       [] lossName = "ns" -> node
       [] OTHER -> [t \in OutIds |-> prob(t)]

\* the ids of S by descending score, the lower id first among equals
RECURSIVE byScore(_, _)
byScore(S, output) ==
  IF S = {} THEN <<>>
  ELSE LET best == CHOOSE i \in S :
                     \A o \in S : output[o] < output[i]
                                   \/ (output[o] = output[i] /\ i <= o)
       IN <<best>> \o byScore(S \ {best}, output)

\* Loss::predict(k, threshold, heap, state): the k best at or above threshold
lossPredict(m) ==
  LET output == computeOutput(m)
      ranked == byScore({i \in OutIds : output[i] >= m.s.threshold}, output)
      kept == SubSeq(ranked, 1, IF Len(ranked) < m.s.k THEN Len(ranked) ELSE m.s.k)
  IN [m EXCEPT !.s = [@ EXCEPT
        !.nPredict = @ + 1,
        !.output = output,
        !.heap = @ \o [p \in 1..Len(kept) |-> <<std_log(output[kept[p]]), kept[p]>>],
        !.pc = "idle"]]

----------------------------------------------------------------------------
(* The calls and their elementary steps *)

\* a slip: an empty input is counted as an example of loss 0
updateEntry_countsEmpty(m, input, targets, targetIndex, lr) ==
  IF Len(input) = 0 THEN [m EXCEPT !.s = incrementNExamples(@, 0)]
  ELSE [m EXCEPT !.s = [@ EXCEPT !.op = "update", !.input = input,
                                 !.targets = targets, !.targetIndex = targetIndex,
                                 !.lr = lr, !.blTrace = <<>>,
                                 !.it = 1, !.j = 1, !.pc = "hidden"]]

\* Model::update up to the first addRow of computeHidden
updateEntry(m, input, targets, targetIndex, lr) ==
  IF Len(input) = 0 THEN m
  ELSE [m EXCEPT !.s = [@ EXCEPT !.op = "update", !.input = input,
                                 !.targets = targets, !.targetIndex = targetIndex,
                                 !.lr = lr, !.blTrace = <<>>,
                                 !.it = 1, !.j = 1, !.pc = "hidden"]]

\* a slip: k < 0 is tested where k <= 0 is meant
predictEntry_acceptsZero(m, input, k, threshold) ==
  LET k1 == IF k = kUnlimitedPredictions THEN Cardinality(OutIds) ELSE k
  IN IF k # kUnlimitedPredictions /\ k < 0
     THEN [m EXCEPT !.s = [@ EXCEPT !.thrown = TRUE]]
     ELSE [m EXCEPT !.s = [@ EXCEPT !.op = "predict", !.input = input, !.k = k1,
                                    !.threshold = threshold, !.thrown = FALSE,
                                    !.heapCap = IF @ < k1 + 1 THEN k1 + 1 ELSE @,
                                    !.it = 1, !.j = 1, !.pc = "hidden"]]

\* Model::predict up to the first addRow of computeHidden
predictEntry(m, input, k, threshold) ==
  LET k1 == IF k = kUnlimitedPredictions THEN Cardinality(OutIds) ELSE k
  IN IF k # kUnlimitedPredictions /\ k <= 0
     THEN [m EXCEPT !.s = [@ EXCEPT !.thrown = TRUE]]
     ELSE [m EXCEPT !.s = [@ EXCEPT !.op = "predict", !.input = input, !.k = k1,
                                    !.threshold = threshold, !.thrown = FALSE,
                                    !.heapCap = IF @ < k1 + 1 THEN k1 + 1 ELSE @,
                                    !.it = 1, !.j = 1, !.pc = "hidden"]]

\* WeightsModel::update up to the first addRow of computeHidden
weightsEntry(m, input, target, lr, winOffset) ==
  IF Len(input) = 0 THEN m
  ELSE [m EXCEPT !.s = [@ EXCEPT !.op = "weights", !.input = input,
                                 !.target = target, !.lr = lr, !.offset = winOffset,
                                 !.blTrace = <<>>,
                                 !.it = 1, !.j = 1, !.pc = "hidden"]]

\* computeHidden followed by a direct call of a legacy loss function
legacyEntry(m, op, input, target, lr) ==
  [m EXCEPT !.s = [@ EXCEPT !.op = op, !.input = input, !.target = target,
                            !.lr = lr, !.blTrace = <<>>,
                            !.it = 1, !.j = 1, !.pc = "hidden"]]

\* a slip: hidden.zero() is missing
computeHidden_noZero(m) ==
  LET s == m.s
      h == [s.hidden EXCEPT ![s.j] = @ + m.wi[s.input[s.it]][s.j]]
  IN IF s.j < LastCol
     THEN [m EXCEPT !.s = [@ EXCEPT !.hidden = h, !.j = @ + 1]]
     ELSE IF s.it < Len(s.input)
     THEN [m EXCEPT !.s = [@ EXCEPT !.hidden = h, !.it = @ + 1, !.j = 1]]
     ELSE [m EXCEPT !.s = [@ EXCEPT
             !.hidden = [j \in Cols |-> RoundDiv(h[j], Len(s.input))],
             !.pc = "hidden_done"]]

\* computeHidden: hidden.zero() before the first element, one hidden.addRow
\* element, and hidden.mul after the last
computeHidden(m) ==
  LET s == m.s
      h0 == IF s.it = 1 /\ s.j = 1 THEN Zero ELSE s.hidden
      h == [h0 EXCEPT ![s.j] = @ + m.wi[s.input[s.it]][s.j]]
  IN IF s.j < LastCol
     THEN [m EXCEPT !.s = [@ EXCEPT !.hidden = h, !.j = @ + 1]]
     ELSE IF s.it < Len(s.input)
     THEN [m EXCEPT !.s = [@ EXCEPT !.hidden = h, !.it = @ + 1, !.j = 1]]
     ELSE [m EXCEPT !.s = [@ EXCEPT
             !.hidden = [j \in Cols |-> RoundDiv(h[j], Len(s.input))],
             !.pc = "hidden_done"]]

\* what each caller does once computeHidden has returned
afterHidden(m) ==
  CASE m.s.op = "update" -> forward([m EXCEPT !.s = [@ EXCEPT !.grad = Zero]])
    [] m.s.op = "predict" -> lossPredict(m)
    [] m.s.op = "legacy_ns" -> negativeSampling(m)
    [] m.s.op = "legacy_hs" -> hierarchicalSoftmax(m)
    [] OTHER -> IF lossName \in {"ns", "hs"}
                THEN [m EXCEPT !.s = [@ EXCEPT !.exited = TRUE, !.pc = "idle"]]
                ELSE weightsSoftmax(m)

\* a slip: the gradient is normalised whatever normalizeGradient_ says
updateAfterForward_alwaysNormalizes(m) ==
  LET s1 == incrementNExamples(m.s, m.s.loss)
      n == Len(m.s.input)
  IN [m EXCEPT !.s = [s1 EXCEPT
        !.fwdLosses = Append(@, m.s.loss),
        !.fwdGrad = m.s.grad,
        !.grad = [j \in Cols |-> RoundDiv(@[j], n)],
        !.it = 1, !.j = 1, !.pc = "wi_load"]]

\* Model::update after forward has returned lossValue
updateAfterForward(m) ==
  LET s1 == incrementNExamples(m.s, m.s.loss)
      n == Len(m.s.input)
  IN [m EXCEPT !.s = [s1 EXCEPT
        !.fwdLosses = Append(@, m.s.loss),
        !.fwdGrad = m.s.grad,
        !.grad = IF normalizeGradient_ THEN [j \in Cols |-> RoundDiv(@[j], n)] ELSE @,
        !.it = 1, !.j = 1, !.pc = "wi_load"]]

\* WeightsModel::update after softmax has returned sampleLoss
weightsAfterSoftmax(m) ==
  LET s == m.s
      sampleLoss == FMul(0 - log(s.output[s.target]), s.weights_probs[s.offset])
      a == FMul(0 - s.lr, sampleLoss)
  IN [m EXCEPT !.s = [@ EXCEPT
        !.ret = sampleLoss,
        !.lossValue_ = @ + sampleLoss,
        !.weights = [i \in WIds |-> @[i] + FMul(a, s.weights_grad_[i])],
        !.nexamples_ = @ + 1,
        !.pc = "idle"]]

\* the loss function has returned to its caller
lossReturn(m) ==
  CASE m.s.op = "update" -> updateAfterForward(m)
    [] m.s.op = "weights" -> weightsAfterSoftmax(m)
    [] OTHER -> [m EXCEPT !.s = [@ EXCEPT !.ret = m.s.loss, !.pc = "idle"]]

\* wo_->dotRow(hidden_, target): one element; after the last, score and alpha
dotStep(m) ==
  LET s == m.s
      d == s.acc + FMul(m.wo[s.row][s.j], s.hidden[s.j])
  IN IF s.j < LastCol
     THEN [m EXCEPT !.s = [@ EXCEPT !.acc = d, !.j = @ + 1]]
     ELSE [m EXCEPT !.s = blScore([s EXCEPT !.acc = d], d)]

\* output.mul(*wo_, hidden): one element; after the last, the normalisation
mulStep(m) ==
  LET s == m.s
      o == [s.output EXCEPT ![s.row] = @ + FMul(m.wo[s.row][s.j], s.hidden[s.j])]
  IN IF s.j < LastCol
     THEN [m EXCEPT !.s = [@ EXCEPT !.output = o, !.j = @ + 1]]
     ELSE IF s.row < LastOut
     THEN [m EXCEPT !.s = [@ EXCEPT !.output = o, !.row = @ + 1, !.j = 1]]
     ELSE [m EXCEPT !.s = softmaxRow([s EXCEPT !.output = softmaxOf(o)], 0)]

\* grad_.addRow(*wo_, target, alpha): one element
gradStep(m) ==
  LET s == m.s
      g == [s.grad EXCEPT ![s.j] = @ + FMul(s.alpha, m.wo[s.row][s.j])]
  IN IF s.j < LastCol
     THEN [m EXCEPT !.s = [@ EXCEPT !.grad = g, !.j = @ + 1]]
     ELSE [m EXCEPT !.s = [@ EXCEPT !.grad = g, !.j = 1, !.pc = "wo_load"]]

\* wo_->addRow(hidden_, target, alpha): the load of one element
woLoad(m) ==
  [m EXCEPT !.s = [@ EXCEPT !.tmp = m.wo[m.s.row][m.s.j], !.pc = "wo_store"]]

\* a slip: the hierarchical-softmax loop stops one node short of the path's end
rowDone_skipsLast(m) ==
  LET s == m.s
      blDone == [s EXCEPT !.loss = @ + blLoss(s),
                          !.blTrace = Append(@, <<s.row, s.label>>)]
  IN CASE s.strategy = "ns" ->
            IF s.n < NegSamples
            THEN LET d == getNegative(s.target, s.rng)
                 IN binaryLogistic(
                      [m EXCEPT !.s = [blDone EXCEPT !.n = @ + 1, !.rng = d.rng]],
                      d.negative, FALSE)
            ELSE [m EXCEPT !.s = [blDone EXCEPT !.pc = "return"]]
       [] s.strategy = "hs" ->
            IF s.n + 1 < Len(paths[s.target])
            THEN binaryLogistic([m EXCEPT !.s = [blDone EXCEPT !.n = @ + 1]],
                                paths[s.target][s.n + 1], codes[s.target][s.n + 1])
            ELSE [m EXCEPT !.s = [blDone EXCEPT !.pc = "return"]]
       [] OTHER ->
            IF s.row < LastOut
            THEN [m EXCEPT !.s = softmaxRow(s, s.row + 1)]
            ELSE [m EXCEPT !.s = [@ EXCEPT !.loss = 0 - log(s.output[s.target]),
                                           !.pc = "return"]]

\* the loop around binaryLogistic / the softmax row, once a row is written
rowDone(m) ==
  LET s == m.s
      blDone == [s EXCEPT !.loss = @ + blLoss(s),
                          !.blTrace = Append(@, <<s.row, s.label>>)]
  IN CASE s.strategy = "ns" ->
            IF s.n < NegSamples
            THEN LET d == getNegative(s.target, s.rng)
                 IN binaryLogistic(
                      [m EXCEPT !.s = [blDone EXCEPT !.n = @ + 1, !.rng = d.rng]],
                      d.negative, FALSE)
            ELSE [m EXCEPT !.s = [blDone EXCEPT !.pc = "return"]]
       [] s.strategy = "hs" ->
            IF s.n < Len(paths[s.target])
            THEN binaryLogistic([m EXCEPT !.s = [blDone EXCEPT !.n = @ + 1]],
                                paths[s.target][s.n + 1], codes[s.target][s.n + 1])
            ELSE [m EXCEPT !.s = [blDone EXCEPT !.pc = "return"]]
       [] OTHER ->
            IF s.row < LastOut
            THEN [m EXCEPT !.s = softmaxRow(s, s.row + 1)]
            ELSE [m EXCEPT !.s = [@ EXCEPT !.loss = 0 - log(s.output[s.target]),
                                           !.pc = "return"]]

\* wo_->addRow(hidden_, target, alpha): the store of one element
woStore(m) ==
  LET s == m.s
      v == s.tmp + FMul(s.beta, s.hidden[s.j])
      m1 == [m EXCEPT !.wo = [@ EXCEPT ![s.row] = [@ EXCEPT ![s.j] = v]]]
  IN IF s.j < LastCol
     THEN [m1 EXCEPT !.s = [@ EXCEPT !.j = @ + 1, !.pc = "wo_load"]]
     ELSE [m1 EXCEPT !.s = [@ EXCEPT !.pc = "row_done"]]

\* wi_->addVectorToRow(grad, *it, 1.0): the load of one element
wiLoad(m) ==
  [m EXCEPT !.s = [@ EXCEPT !.tmp = m.wi[m.s.input[m.s.it]][m.s.j],
                            !.pc = "wi_store"]]

\* a change of policy: the addition is one atomic read-modify-write
wiStore_atomic(m) ==
  LET s == m.s
      id == s.input[s.it]
      v == m.wi[id][s.j] + FMul(Scale, s.grad[s.j])
      m1 == [m EXCEPT !.wi = [@ EXCEPT ![id] = [@ EXCEPT ![s.j] = v]]]
  IN IF s.j < LastCol
     THEN [m1 EXCEPT !.s = [@ EXCEPT !.j = @ + 1, !.pc = "wi_load"]]
     ELSE IF s.it < Len(s.input)
     THEN [m1 EXCEPT !.s = [@ EXCEPT !.it = @ + 1, !.j = 1, !.pc = "wi_load"]]
     ELSE [m1 EXCEPT !.s = [@ EXCEPT !.pc = "idle"]]

\* wi_->addVectorToRow(grad, *it, 1.0): the store of one element
wiStore(m) ==
  LET s == m.s
      id == s.input[s.it]
      v == s.tmp + FMul(Scale, s.grad[s.j])
      m1 == [m EXCEPT !.wi = [@ EXCEPT ![id] = [@ EXCEPT ![s.j] = v]]]
  IN IF s.j < LastCol
     THEN [m1 EXCEPT !.s = [@ EXCEPT !.j = @ + 1, !.pc = "wi_load"]]
     ELSE IF s.it < Len(s.input)
     THEN [m1 EXCEPT !.s = [@ EXCEPT !.it = @ + 1, !.j = 1, !.pc = "wi_load"]]
     ELSE [m1 EXCEPT !.s = [@ EXCEPT !.pc = "idle"]]

\* local control points are passed through without a step of their own
RECURSIVE settle(_)
settle(m) ==
  CASE m.s.pc = "hidden_done" -> settle(afterHidden(m))
    [] m.s.pc = "row_done" -> settle(rowDone(m))
    [] m.s.pc = "return" -> settle(lossReturn(m))
    [] OTHER -> m

\* one elementary step of the call in progress
Step(m) ==
  settle(CASE m.s.pc = "hidden" -> computeHidden(m)
           [] m.s.pc = "dot" -> dotStep(m)
           [] m.s.pc = "mul" -> mulStep(m)
           [] m.s.pc = "gradrow" -> gradStep(m)
           [] m.s.pc = "wo_load" -> woLoad(m)
           [] m.s.pc = "wo_store" -> woStore(m)
           [] m.s.pc = "wi_load" -> wiLoad(m)
           [] m.s.pc = "wi_store" -> wiStore(m)
           [] OTHER -> m)

\* the call in progress, run to its return
RECURSIVE Run(_)
Run(m) == IF m.s.pc = "idle" THEN m ELSE Run(Step(m))

----------------------------------------------------------------------------
(* The arguments the callers supply *)

InputLists == {<<>>, <<0>>, <<0, 1>>, <<1, 1>>, <<1, 0, 1>>}
TargetLists == {<<2, 0>>}
LRs == {4, 8}
PredictInputs == {<<1, 0>>}
Ks == {kUnlimitedPredictions, -2, 0, 2}
Thresholds == {0, 3}

Example(input, targets, targetIndex, lr) ==
  [input |-> input, targets |-> targets, targetIndex |-> targetIndex, lr |-> lr]

\* the slice of the corpus one training thread works through
CorporaSteps ==
  { <<Example(<<0, 1>>, <<0>>, 0, 8), Example(<<1, 1>>, <<2, 1>>, 1, 4)>>,
    <<Example(<<>>, <<0>>, 0, 8), Example(<<1, 0, 1>>, <<2, 1>>, 0, 8)>> }

CorporaMT ==
  { [w \in 1..2 |-> <<Example(<<0>>, <<0>>, 0, 8)>>],
    [w \in 1..2 |-> IF w = 1 THEN <<Example(<<0, 1>>, <<2, 1>>, 1, 8)>>
                    ELSE <<Example(<<>>, <<0>>, 0, 4), Example(<<1>>, <<2, 1>>, 0, 4)>>],
    [w \in 1..2 |-> IF w = 1 THEN <<Example(<<0>>, <<2, 1>>, 0, 8),
                                     Example(<<1, 1>>, <<0>>, 0, 4)>>
                    ELSE <<Example(<<>>, <<0>>, 0, 4)>>] }

NoCall ==
  [op |-> "none", input |-> <<>>, targets |-> <<>>, targetIndex |-> 0, lr |-> 0,
   k |-> 0, threshold |-> 0, target |-> 0, offset |-> 0, ncalls |-> 0, nonEmpty |-> 0]

M(w) == [s |-> st[w], wi |-> wi, wo |-> wo]

\* the call's arguments and the state it began in are remembered
Remember(w, call) ==
  /\ pre' = [pre EXCEPT ![w] = M(w)]
  /\ last' = [last EXCEPT ![w] =
        [call EXCEPT !.ncalls = last[w].ncalls + 1,
                     !.nonEmpty = last[w].nonEmpty
                        + (IF call.op # "predict" /\ Len(call.input) > 0 THEN 1 ELSE 0)]]

Result(w, r) ==
  /\ st' = [st EXCEPT ![w] = r.s]
  /\ wi' = r.wi
  /\ wo' = r.wo
  /\ UNCHANGED <<lossName, normalizeGradient_, codes, paths>>

InitWith(workers, seeds, nex, corpora) ==
  /\ wi = Wi0
  /\ wo = Wo0
  /\ lossName \in LossNames
  /\ normalizeGradient_ \in BOOLEAN
  /\ codes = Codes0
  /\ paths = Paths0
  /\ \E corpus \in corpora :
       st = [w \in workers |-> [NewState(seeds[w], nex) EXCEPT !.todo = corpus[w]]]
  /\ pre = [w \in workers |-> [s |-> st[w], wi |-> wi, wo |-> wo]]
  /\ last = [w \in workers |-> NoCall]

----------------------------------------------------------------------------
(* Spec: one State, whole calls of Model::update and Model::predict *)

Init == InitWith({1}, <<1>>, 0, {<< <<>> >>})

\* Model::update(input, targets, targetIndex, lr, state)
Update(w, input, targets, targetIndex, lr) ==
  /\ st[w].pc = "idle"
  /\ last[w].ncalls < MaxCalls
  /\ Result(w, Run(updateEntry(M(w), input, targets, targetIndex, lr)))
  /\ Remember(w, [NoCall EXCEPT !.op = "update", !.input = input, !.targets = targets,
                               !.targetIndex = targetIndex, !.lr = lr])

\* Model::predict(input, k, threshold, heap, state)
Predict(w, input, k, threshold) ==
  /\ st[w].pc = "idle"
  /\ last[w].ncalls < MaxCalls
  /\ Result(w, Run(predictEntry(M(w), input, k, threshold)))
  /\ Remember(w, [NoCall EXCEPT !.op = "predict", !.input = input, !.k = k,
                               !.threshold = threshold])

UpdateCall ==
  \E input \in InputLists, targets \in TargetLists, lr \in LRs :
    \E targetIndex \in 0..(Len(targets) - 1) :
      Update(1, input, targets, targetIndex, lr)

PredictCall ==
  \E input \in PredictInputs, k \in Ks, threshold \in Thresholds :
    Predict(1, input, k, threshold)

Next == UpdateCall \/ PredictCall

Spec == Init /\ [][Next]_vars

----------------------------------------------------------------------------
(* SpecSteps, SpecMT: training threads whose elementary steps interleave *)

InitSteps == InitWith({1}, <<1>>, 0, {<<c>> : c \in CorporaSteps})

InitMT == InitWith({1, 2}, <<1, 2>>, 0, CorporaMT)

\* the thread takes the next example of its slice and calls Model::update
Begin(w) ==
  /\ st[w].pc = "idle"
  /\ st[w].todo # <<>>
  /\ LET e == Head(st[w].todo)
         m == [M(w) EXCEPT !.s = [@ EXCEPT !.todo = Tail(@)]]
     IN /\ Result(w, updateEntry(m, e.input, e.targets, e.targetIndex, e.lr))
        /\ Remember(w, [NoCall EXCEPT !.op = "update", !.input = e.input,
                                     !.targets = e.targets,
                                     !.targetIndex = e.targetIndex, !.lr = e.lr])

\* a slip: the hidden vector is one buffer shared by all threads
WorkerStep_sharedHidden(w) ==
  /\ st[w].pc # "idle"
  /\ LET r == Step(M(w))
     IN /\ st' = [v \in DOMAIN st |->
                    IF v = w THEN r.s ELSE [st[v] EXCEPT !.hidden = r.s.hidden]]
        /\ wi' = r.wi
        /\ wo' = r.wo
  /\ UNCHANGED <<pre, last, lossName, normalizeGradient_, codes, paths>>

\* the thread's call advances by one access to a shared matrix
WorkerStep(w) ==
  /\ st[w].pc # "idle"
  /\ Result(w, Step(M(w)))
  /\ UNCHANGED <<pre, last>>

BeginSome == \E w \in DOMAIN st : Begin(w)

StepSome == \E w \in DOMAIN st : WorkerStep(w)

NextFine == BeginSome \/ StepSome

SpecSteps == InitSteps /\ [][NextFine]_vars

SpecMT == InitMT /\ [][NextFine]_vars

----------------------------------------------------------------------------
(* SpecLegacy: the legacy Model object and WeightsModel, whole calls *)

InitLegacy == InitWith({1}, <<0>>, 1, {<< <<>> >>})

LegacyInputs == {<<0>>, <<1, 0>>}

\* WeightsModel::update(input, target, lr, winOffset)
WeightsUpdate(w, input, target, lr, winOffset) ==
  /\ st[w].pc = "idle"
  /\ ~st[w].exited
  /\ last[w].ncalls < MaxCalls
  /\ Result(w, Run(weightsEntry(M(w), input, target, lr, winOffset)))
  /\ Remember(w, [NoCall EXCEPT !.op = "weights", !.input = input, !.target = target,
                               !.lr = lr, !.offset = winOffset])

\* computeHidden, then negativeSampling or hierarchicalSoftmax
LegacyLoss(w, op, input, target, lr) ==
  /\ st[w].pc = "idle"
  /\ ~st[w].exited
  /\ last[w].ncalls < MaxCalls
  /\ Result(w, Run(legacyEntry(M(w), op, input, target, lr)))
  /\ Remember(w, [NoCall EXCEPT !.op = op, !.input = input, !.target = target,
                               !.lr = lr])

WeightsUpdateCall ==
  \E input \in LegacyInputs \cup {<<>>}, target \in OutIds, lr \in LRs, winOffset \in WIds :
    WeightsUpdate(1, input, target, lr, winOffset)

NegativeSamplingCall ==
  \E input \in LegacyInputs, target \in OutIds, lr \in LRs :
    LegacyLoss(1, "legacy_ns", input, target, lr)

HierarchicalSoftmaxCall ==
  \E input \in LegacyInputs, target \in OutIds, lr \in LRs :
    LegacyLoss(1, "legacy_hs", input, target, lr)

NextLegacy == WeightsUpdateCall \/ NegativeSamplingCall \/ HierarchicalSoftmaxCall

SpecLegacy == InitLegacy /\ [][NextLegacy]_vars

----------------------------------------------------------------------------
(* The claims *)

Workers == DOMAIN st

\* the sum of f over its domain
RECURSIVE SumFn(_)
SumFn(f) ==
  IF DOMAIN f = {} THEN 0
  ELSE LET x == CHOOSE x \in DOMAIN f : TRUE
       IN f[x] + SumFn([y \in DOMAIN f \ {x} |-> f[y]])

\* how often id occurs in the list
Count(input, id) == Cardinality({p \in 1..Len(input) : input[p] = id})

\* the mean of the rows of mat the list refers to, once per occurrence
MeanOfRows(mat, input) ==
  [j \in Cols |->
     RoundDiv(SumFn([id \in InIds |-> Count(input, id) * mat[id][j]]), Len(input))]

\* the last call of w was an update that went past its guard
UpdatedNonEmpty(w) == last[w].op = "update" /\ Len(last[w].input) > 0

\* C1: Model::update with an empty input list changes neither matrix nor any
\* field of the worker's State, and does not invoke the loss's forward.
C1_EmptyUpdateNoEffect ==
  \A w \in Workers :
    (last[w].op = "update" /\ last[w].input = <<>>) =>
      /\ wi = pre[w].wi
      /\ wo = pre[w].wo
      /\ StateOf(st[w]) = StateOf(pre[w].s)
      /\ st[w].nForward = pre[w].s.nForward

\* an empty update made on a State that an earlier update has left non-trivial
C1_Witness ==
  /\ last[1].op = "update" /\ last[1].input = <<>> /\ last[1].lr = 4
  /\ st[1].nexamples_ = 1
  /\ st[1].grad # Zero
  /\ st[1].hidden # Zero

\* C2: Model::predict with k <= 0 other than the sentinel throws and changes
\* nothing (hidden, heap, matrices; the loss's predict is not invoked); with the
\* sentinel nothing is thrown and k becomes the row count of the output matrix.
C2_PredictInvalidK ==
  \A w \in Workers :
    last[w].op = "predict" =>
      /\ (last[w].k <= 0 /\ last[w].k # kUnlimitedPredictions) =>
            /\ st[w].thrown
            /\ StateOf(st[w]) = StateOf(pre[w].s)
            /\ st[w].heap = pre[w].s.heap
            /\ st[w].heapCap = pre[w].s.heapCap
            /\ wi = pre[w].wi /\ wo = pre[w].wo
            /\ st[w].nPredict = pre[w].s.nPredict
      /\ last[w].k = kUnlimitedPredictions =>
            /\ ~st[w].thrown
            /\ st[w].k = Cardinality(DOMAIN wo)
            /\ st[w].nPredict = pre[w].s.nPredict + 1

\* predict(k = 0) on a State whose hidden vector is not the one it would compute
C2_Witness ==
  /\ last[1].op = "predict" /\ last[1].k = 0
  /\ st[1].thrown
  /\ st[1].hidden # Zero
  /\ st[1].hidden # MeanOfRows(wi, last[1].input)

\* C3: the example counter is the number of update calls with a non-empty
\* input, the running total is the sum of the losses forward returned in them,
\* and getLoss is their mean: after one such update, that update's loss.
C3_LossAccounting ==
  \A w \in Workers :
    /\ st[w].nexamples_ = last[w].nonEmpty
    /\ Len(st[w].fwdLosses) = last[w].nonEmpty
    /\ st[w].lossValue_ = SumSeq(st[w].fwdLosses)
    /\ st[w].nexamples_ > 0 =>
          getLoss(st[w]) = RoundDiv(SumSeq(st[w].fwdLosses), Len(st[w].fwdLosses))
    /\ st[w].nexamples_ = 1 => getLoss(st[w]) = st[w].fwdLosses[1]

\* two counted updates with different losses
C3_Witness ==
  /\ st[1].nexamples_ = 2
  /\ st[1].fwdLosses[1] > 0
  /\ st[1].fwdLosses[2] > st[1].fwdLosses[1]

\* C4: after computeHidden the hidden vector is the mean of the input-matrix
\* rows of the list, once per occurrence, whatever it held before; computeHidden
\* does not modify the input matrix.
C4_HiddenIsMean ==
  \A w \in Workers :
    /\ UpdatedNonEmpty(w) => st[w].hidden = MeanOfRows(pre[w].wi, last[w].input)
    /\ (last[w].op = "predict" /\ ~st[w].thrown) =>
          /\ st[w].hidden = MeanOfRows(pre[w].wi, last[w].input)
          /\ wi = pre[w].wi

\* a list with a repeated id, on a State whose hidden vector held something else
C4_Witness ==
  /\ UpdatedNonEmpty(1) /\ last[1].input = <<1, 0, 1>>
  /\ pre[1].s.hidden # Zero
  /\ pre[1].s.hidden # st[1].hidden

\* the gradient the last call of w leaves when it starts from gradient g
GradFrom(w, g) ==
  LET m == [pre[w] EXCEPT !.s = [@ EXCEPT !.grad = g]]
      c == last[w]
  IN Run(CASE c.op = "update" ->
                updateEntry(m, c.input, c.targets, c.targetIndex, c.lr)
           [] c.op = "weights" ->
                weightsEntry(m, c.input, c.target, c.lr, c.offset)
           [] OTHER -> legacyEntry(m, c.op, c.input, c.target, c.lr)).s.grad

\* C5: in every update path the gradient held after a call is the one that call
\* derives from a zeroed accumulator: nothing is carried over from earlier calls.
C5_NoGradientCarryOver ==
  \A w \in Workers :
    (last[w].op \in {"update", "weights", "legacy_ns", "legacy_hs"}
       /\ Len(last[w].input) > 0 /\ ~st[w].exited) =>
      st[w].grad = GradFrom(w, Zero)

\* C5, for the paths that do zero the accumulator
C5_NoCarryOverExceptWeights ==
  \A w \in Workers :
    (last[w].op \in {"update", "legacy_ns", "legacy_hs"} /\ Len(last[w].input) > 0) =>
      st[w].grad = GradFrom(w, Zero)

ForwardPcs == {"dot", "mul", "gradrow", "wo_load", "wo_store"}
ScatterPcs == {"wi_load", "wi_store"}

C6_Inv ==
  \A w \in Workers :
    LET s == st[w] IN
    /\ s.pc = "hidden" => (wi = pre[w].wi /\ wo = pre[w].wo)
    /\ s.pc \in ForwardPcs =>
          /\ wi = pre[w].wi
          /\ s.hidden = MeanOfRows(pre[w].wi, s.input)
          /\ s.nForward = pre[w].s.nForward + 1
          /\ s.nexamples_ = pre[w].s.nexamples_
    /\ s.pc = "mul" => (s.grad = Zero /\ wo = pre[w].wo)
    /\ (s.pc = "dot" /\ s.blTrace = <<>>) => (s.grad = Zero /\ wo = pre[w].wo)
    /\ (s.pc \in {"dot", "gradrow"} /\ s.strategy \in {"ns", "hs"}) =>
          wo[s.row] = s.snapRow
    /\ (s.pc \in {"wo_load", "wo_store"} /\ s.strategy \in {"ns", "hs"}) =>
          s.grad = [j \in Cols |-> s.snapGrad[j] + FMul(s.alpha, s.snapRow[j])]
    /\ s.pc \in ScatterPcs =>
          /\ s.nexamples_ = pre[w].s.nexamples_ + 1
          /\ s.hidden = MeanOfRows(pre[w].wi, s.input)

C6_Act ==
  \A w \in Workers :
    /\ wo' # wo => st[w].pc = "wo_store"
    /\ wi' # wi => (st[w].pc = "wi_store" /\ wo' = wo)
    /\ st[w].pc \in ScatterPcs => wo' = wo
    /\ (st[w].pc \in ForwardPcs /\ st'[w].pc \notin ForwardPcs) =>
          st'[w].pc \in ScatterPcs
    /\ (st[w].pc = "hidden" /\ st'[w].pc # "hidden") => st'[w].pc \in ForwardPcs
    /\ (st[w].pc \in ScatterPcs /\ st'[w].pc \notin ScatterPcs) => st'[w].pc = "idle"

\* C6: within one Model::update the hidden vector is computed first, the
\* gradient is zeroed, forward runs (all writes of output rows happen in it, with
\* the hidden vector of the input rows as they were when the call began), and only
\* then are input rows written; in a binary-logistic step the gradient is taken
\* from the output row before that row is written.
C6_StepOrder == []C6_Inv /\ [][C6_Act]_vars

\* in the middle of the scatter, after forward has written output rows
C6_Witness ==
  /\ st[1].pc = "wi_store" /\ st[1].it = 2
  /\ wo # pre[1].wo
  /\ wi # pre[1].wi
  /\ st[1].strategy = "ns"

\* the gradient that is scattered: the one forward left, normalised or not
Scattered(w) ==
  IF normalizeGradient_
  THEN [j \in Cols |-> RoundDiv(st[w].fwdGrad[j], Len(last[w].input))]
  ELSE st[w].fwdGrad

\* C7: after Model::update every input row has had the gradient added once per
\* occurrence of its id in the list (so rows not in the list are unchanged); the
\* gradient is the one forward left, times 1/length exactly in normalize mode.
C7_Scatter ==
  \A w \in Workers :
    UpdatedNonEmpty(w) =>
      /\ st[w].grad = Scattered(w)
      /\ \A id \in InIds : \A j \in Cols :
            wi[id][j] = pre[w].wi[id][j] + Count(last[w].input, id) * Scattered(w)[j]

\* normalize mode, a repeated id, and a gradient that the normalisation changes
C7_Witness ==
  /\ UpdatedNonEmpty(1) /\ last[1].input = <<1, 0, 1>>
  /\ normalizeGradient_
  /\ st[1].grad # st[1].fwdGrad
  /\ st[1].grad # Zero

C8_Inv ==
  \A w \in Workers :
    /\ st[w].pc = "idle" => st[w].nexamples_ = last[w].nonEmpty
    /\ st[w].nexamples_ \in {last[w].nonEmpty - 1, last[w].nonEmpty}
    /\ st[w].lossValue_ = SumSeq(st[w].fwdLosses)

C8_Act ==
  \A w \in Workers :
    st'[w] # st[w] =>
      /\ \A v \in Workers \ {w} : st'[v] = st[v] /\ pre'[v] = pre[v] /\ last'[v] = last[v]
      /\ UNCHANGED <<lossName, normalizeGradient_, codes, paths>>

Alone(w, m) ==
  LET c == last[w]
      r == Run(updateEntry([m EXCEPT !.s = pre[w].s], c.input, c.targets,
                           c.targetIndex, c.lr))
  IN [s |-> r.s, wi |-> r.wi, wo |-> r.wo]

\* the matrices after the two updates, one after the other
Sequential(first, second) ==
  LET a == Alone(second, Alone(first, [s |-> pre[first].s, wi |-> Wi0, wo |-> Wo0]))
  IN <<a.wi, a.wo>>

C9_Act ==
  \A w \in Workers :
    LET s == st[w] IN
    /\ (s.pc = "wi_load" /\ st'[w] # s) =>
          (st'[w].tmp = wi[s.input[s.it]][s.j] /\ wi' = wi)
    /\ (s.pc = "wi_store" /\ st'[w] # s) =>
          wi' = [wi EXCEPT ![s.input[s.it]] = [@ EXCEPT ![s.j] = s.tmp + s.grad[s.j]]]
    /\ (s.pc = "wo_load" /\ st'[w] # s) =>
          (st'[w].tmp = wo[s.row][s.j] /\ wo' = wo)
    /\ (s.pc = "wo_store" /\ st'[w] # s) =>
          wo' = [wo EXCEPT ![s.row] =
                   [@ EXCEPT ![s.j] = s.tmp + FMul(s.beta, s.hidden[s.j])]]

\* C9: an addition to a matrix element is a load and a later store of the loaded
\* value plus the increment, with no lock between them, so that two workers
\* updating the same row can leave a result no sequential order of their two
\* updates gives.
C9_UnsynchronizedRowUpdates == [][C9_Act]_vars

\* both updates are done and the matrices are those of neither sequential order
C9_Witness ==
  /\ Workers = {1, 2}
  /\ \A w \in Workers : st[w].pc = "idle" /\ st[w].todo = <<>> /\ last[w].nonEmpty = 1
  /\ <<wi, wo>> # Sequential(1, 2)
  /\ <<wi, wo>> # Sequential(2, 1)
  /\ wi[0] # Sequential(1, 2)[1][0]
  /\ wi[0] # Sequential(2, 1)[1][0]

\* the loss of the binary-logistic step at node p of the path of target t
NodeLoss(w, t, p) ==
  LET score == sigmoid(dotRow(pre[w].wo, st[w].hidden, paths[t][p]))
  IN IF codes[t][p] THEN 0 - log(score) ELSE 0 - log(Scale - score)

\* C10: hierarchical softmax performs one binary-logistic step per node of the
\* target's path, in path order, with the node's code bit as label; it returns
\* the sum of the steps' losses, leaves codes and paths as they were and writes
\* only output rows that are on the path.
C10_HierarchicalSoftmax ==
  \A w \in Workers :
    (UpdatedNonEmpty(w) /\ lossName = "hs") =>
      LET t == last[w].targets[last[w].targetIndex + 1]
          n == Len(paths[t])
      IN /\ st[w].blTrace = [p \in 1..n |-> <<paths[t][p], codes[t][p]>>]
         /\ st[w].fwdLosses[Len(st[w].fwdLosses)]
              = SumSeq([p \in 1..n |-> NodeLoss(w, t, p)])
         /\ codes = Codes0 /\ paths = Paths0
         /\ \A r \in OutIds :
              r \notin {paths[t][p] : p \in 1..n} => wo[r] = pre[w].wo[r]

\* a target whose path has two nodes, with two different step losses
C10_Witness ==
  /\ UpdatedNonEmpty(1) /\ lossName = "hs"
  /\ last[1].targetIndex = 0
  /\ Len(st[1].blTrace) = 2
  /\ NodeLoss(1, 2, 1) # NodeLoss(1, 2, 2)
  /\ wo[0] # pre[1].wo[0] /\ wo[1] # pre[1].wo[1]

====
